---------------------------- MODULE Spec2Model ----------------------------
(***************************************************************************)
(* A model of collect_info.py: the release-information collector.          *)
(*                                                                         *)
(* Python strings are modelled as sequences of tokens.  A token is either  *)
(* a single significant character ("|", "=", " ", "\n", ".", "/") or an    *)
(* atomic word (a field name, a run of digits, a date, a tag).  The empty  *)
(* string is << >>.  Python's None is the one-token sequence None, whose    *)
(* token occurs in no text.                                                *)
(***************************************************************************)
EXTENDS Integers, Sequences, FiniteSets, TLC

VARIABLES
    pc,            \* main: the position of the run
    argOutput,     \* main: args.output
    clockReads,    \* how often datetime.utcnow() was read
    generated_at,  \* collect_all: the timestamp read, or None
    calls,         \* the fetchers called so far, in call order
    active,        \* the fetcher that is running, or NoFetcher
    reqNo,         \* the number of the HTTP request the running fetcher is at
    parts,         \* what the running fetcher has got from its requests so far
    snapshot,      \* collect_all: the entries of the dict evaluated so far
    payload,       \* main: what collect_all returned
    stdout,        \* the documents printed
    outfile,       \* the output file: << >>, or its content once written
    raised,        \* the fetcher whose exception ended the run, or NoFetcher
    fn,            \* a function called on its own: its name
    status,        \* "called", "returned" or "raised"
    args,          \* its arguments
    ret            \* its return value once status is "returned"

runVars == <<pc, argOutput, clockReads, generated_at, calls, active, reqNo,
             parts, snapshot, payload, stdout, outfile, raised>>
fnVars == <<fn, status, args, ret>>
vars == <<pc, argOutput, clockReads, generated_at, calls, active, reqNo,
          parts, snapshot, payload, stdout, outfile, raised, fn, status, args, ret>>

---------------------------------------------------------------------------
(* Python values *)

None == <<"None:NoneType">>

\* str(x): the string of a string is itself, str(None) is the text "None"
str(x) == IF x = None THEN <<"None">> ELSE x

\* bool(x) of an Optional[str]
Truthy(x) == x # None /\ x # << >>

\* d.get(k) of a JSON object d
Get(d, k) == IF k \in DOMAIN d THEN d[k] ELSE None

\* d.get(k, default)
GetOr(d, k, default) == IF k \in DOMAIN d THEN d[k] ELSE default

\* \s of the re module, over the tokens of the model
IsSpace(c) == c \in {" ", "\t", "\n", "\r"}

RECURSIVE LStrip(_)
LStrip(s) == IF s # << >> /\ IsSpace(Head(s)) THEN LStrip(Tail(s)) ELSE s

RECURSIVE RStrip(_)
RStrip(s) ==
    IF s # << >> /\ IsSpace(s[Len(s)]) THEN RStrip(SubSeq(s, 1, Len(s) - 1)) ELSE s

\* str.strip()
Strip(s) == RStrip(LStrip(s))

ReleaseInfo(version, version_code, release_date, source) ==
    [version |-> version, version_code |-> version_code,
     release_date |-> release_date, source |-> source]

---------------------------------------------------------------------------
(* _extract_wikitext_field *)

\* greedy \s*: the first position at or after i that holds no whitespace
RECURSIVE SkipSpace(_, _)
SkipSpace(t, i) ==
    IF i <= Len(t) /\ IsSpace(t[i]) THEN SkipSpace(t, i + 1) ELSE i

\* greedy .+ followed by $ (MULTILINE): the position after the last token of i's line
RECURSIVE LineEnd(_, _)
LineEnd(t, i) ==
    IF i <= Len(t) /\ t[i] # "\n" THEN LineEnd(t, i + 1) ELSE i

\* The positions at which (.+) may start after "=": \s* gives back whitespace
\* until the token it stops before is one "." matches.
GroupStarts(t, v0) ==
    {q \in v0 .. SkipSpace(t, v0) : q <= Len(t) /\ t[q] # "\n"}

\* ^\|\s*key\s*= at position p: the position after "=", or 0 when there is no match
HeadMatch(t, key, p) ==
    IF ~(p <= Len(t) /\ t[p] = "|" /\ (p = 1 \/ t[p - 1] = "\n")) THEN 0
    ELSE LET k == SkipSpace(t, p + 1) IN
         IF ~(k <= Len(t) /\ t[k] = key) THEN 0
         ELSE LET e == SkipSpace(t, k + 1) IN
              IF e <= Len(t) /\ t[e] = "=" THEN e + 1 ELSE 0

\* whether the whole pattern matches at p
MatchesAt(t, key, p) ==
    HeadMatch(t, key, p) # 0 /\ GroupStarts(t, HeadMatch(t, key, p)) # {}

Max(S) == CHOOSE x \in S : \A y \in S : y <= x
Min(S) == CHOOSE x \in S : \A y \in S : x <= y

\* match.group(1) of the match at p
Group1(t, key, p) ==
    LET q == Max(GroupStarts(t, HeadMatch(t, key, p)))
    IN  SubSeq(t, q, LineEnd(t, q) - 1)

\* re.search(pattern, wikitext, flags=re.MULTILINE): the leftmost match, group(1)
\* stripped; NoMatch when there is none
NoMatch == <<"no match">>
SearchField(t, key) ==
    LET ps == {p \in 1 .. Len(t) : MatchesAt(t, key, p)}
    IN  IF ps = {} THEN NoMatch ELSE Strip(Group1(t, key, Min(ps)))

RECURSIVE _extract_wikitext_field(_, _)
_extract_wikitext_field(wikitext, keys) ==
    IF keys = << >> THEN None
    ELSE IF SearchField(wikitext, Head(keys)) # NoMatch
         THEN SearchField(wikitext, Head(keys))
         ELSE _extract_wikitext_field(wikitext, Tail(keys))

---------------------------------------------------------------------------
(* _clean_wikitext *)

\* the first position at or after i that holds tok, or 0
RECURSIVE Find(_, _, _)
Find(s, tok, i) ==
    IF i > Len(s) THEN 0 ELSE IF s[i] = tok THEN i ELSE Find(s, tok, i + 1)

\* <ref[^>]*?> matches an opening tag and a self-closing one alike
IsRefOpen(c) == c \in {"<ref>", "<ref/>"}

\* re.sub(r"<ref[^>]*?>.*?</ref>", "", value, flags=re.DOTALL)
RECURSIVE SubRefBlocks(_)
SubRefBlocks(s) ==
    IF s = << >> THEN << >>
    ELSE IF IsRefOpen(Head(s)) /\ Find(s, "</ref>", 2) # 0
         THEN SubRefBlocks(SubSeq(s, Find(s, "</ref>", 2) + 1, Len(s)))
         ELSE <<Head(s)>> \o SubRefBlocks(Tail(s))

\* re.sub(r"<ref[^/>]*/>", "", value)
SubRefSelfClosing(s) == SelectSeq(s, LAMBDA c : c # "<ref/>")

TemplateOpen == {"{{Start date", "{{start date", "{{Start date and age", "{{n/a"}

\* the position of the "}}" that closes the template opened before i, or 0
RECURSIVE CloseOf(_, _, _)
CloseOf(s, i, depth) ==
    IF i > Len(s) THEN 0
    ELSE IF s[i] \in TemplateOpen THEN CloseOf(s, i + 1, depth + 1)
    ELSE IF s[i] = "}}" THEN (IF depth = 0 THEN i ELSE CloseOf(s, i + 1, depth - 1))
    ELSE CloseOf(s, i + 1, depth)

\* mwparserfromhell.parse(value).strip_code(): templates are dropped, text is kept
RECURSIVE strip_code(_)
strip_code(s) ==
    IF s = << >> THEN << >>
    ELSE IF Head(s) \in TemplateOpen /\ CloseOf(s, 2, 0) # 0
         THEN strip_code(SubSeq(s, CloseOf(s, 2, 0) + 1, Len(s)))
         ELSE <<Head(s)>> \o strip_code(Tail(s))

_clean_wikitext(value) == Strip(strip_code(SubRefSelfClosing(SubRefBlocks(value))))

---------------------------------------------------------------------------
(* _parse_wiki_date *)

DigitChars == <<"0", "1", "2", "3", "4", "5", "6", "7", "8", "9">>
IsDigit(c) == \E i \in 1 .. 10 : DigitChars[i] = c
DigitVal(c) == (CHOOSE i \in 1 .. 10 : DigitChars[i] = c) - 1

At(s, i) == IF i >= 1 /\ i <= Len(s) THEN s[i] ELSE "<eos>"

\* int(part) of a run of digits
RECURSIVE int(_)
int(ds) ==
    IF ds = << >> THEN 0 ELSE 10 * int(SubSeq(ds, 1, Len(ds) - 1)) + DigitVal(ds[Len(ds)])

\* f"{n:02d}" for 0 <= n <= 99
Format02d(n) == <<DigitChars[(n \div 10) + 1], DigitChars[(n % 10) + 1]>>

\* greedy \d{1,2} at i: the number of digits taken when the next pattern token is
\* next ("" when nothing follows in the pattern), or 0
Digits12(s, i, next) ==
    IF IsDigit(At(s, i)) /\ IsDigit(At(s, i + 1)) /\ (next = "" \/ At(s, i + 2) = next)
    THEN 2
    ELSE IF IsDigit(At(s, i)) /\ (next = "" \/ At(s, i + 1) = next) THEN 1 ELSE 0

\* \{\{Start date\|(\d{4})\|(\d{1,2})\|(\d{1,2}) at p: the groups, or << >>
StartDateAt(s, p) ==
    IF ~(At(s, p) = "{{Start date" /\ At(s, p + 1) = "|"
         /\ \A i \in p + 2 .. p + 5 : IsDigit(At(s, i))
         /\ At(s, p + 6) = "|")
    THEN << >>
    ELSE LET m == Digits12(s, p + 7, "|")
             d == Digits12(s, p + 8 + m, "")
         IN  IF m = 0 \/ d = 0 THEN << >>
             ELSE <<SubSeq(s, p + 2, p + 5), SubSeq(s, p + 7, p + 6 + m),
                    SubSeq(s, p + 8 + m, p + 7 + m + d)>>

\* re.search: match.groups() of the leftmost match, or << >>
StartDateSearch(s) ==
    LET ps == {p \in 1 .. Len(s) : StartDateAt(s, p) # << >>}
    IN  IF ps = {} THEN << >> ELSE StartDateAt(s, Min(ps))

\* cleaned or None
OrNone(x) == IF x = << >> THEN None ELSE x

\* the body of _parse_wiki_date: its return value and how often it called
\* _clean_wikitext
parse_wiki_date_run(value) ==
    LET g == StartDateSearch(value) IN
    IF g # << >>
    THEN [ret |-> g[1] \o <<"-">> \o Format02d(int(g[2])) \o <<"-">> \o Format02d(int(g[3])),
          cleaner_calls |-> 0]
    ELSE [ret |-> OrNone(_clean_wikitext(value)), cleaner_calls |-> 1]

_parse_wiki_date(value) == parse_wiki_date_run(value).ret

---------------------------------------------------------------------------
(* _fetch_wikipedia_wikitext and _from_wikipedia *)

\* data["parse"]["wikitext"]["*"] raises a KeyError when the API answered with an
\* error object
wikipedia_raises(data) == "parse" \notin DOMAIN data

\* data["parse"]["wikitext"]["*"] of the response
_fetch_wikipedia_wikitext(data) == data.parse

WikiSource(page) == <<"https://en.wikipedia.org/wiki/", page>>

\* x if cond else None
CleanIf(raw) == IF Truthy(raw) THEN _clean_wikitext(raw) ELSE None

\* one ReleaseInfo of _from_wikipedia
WikiRelease(page, version_raw, code_raw, date_raw) ==
    ReleaseInfo(CleanIf(version_raw),
                IF Truthy(code_raw) THEN _clean_wikitext(code_raw) ELSE CleanIf(version_raw),
                IF Truthy(date_raw) THEN _parse_wiki_date(date_raw) ELSE None,
                WikiSource(page))

\* k is the keyword arguments of the call: page and the six key lists
_from_wikipedia(k, data) ==
    LET wikitext == _fetch_wikipedia_wikitext(data) IN
         [stable |-> WikiRelease(k.page,
                        _extract_wikitext_field(wikitext, k.stable_version_keys),
                        _extract_wikitext_field(wikitext, k.stable_code_keys),
                        _extract_wikitext_field(wikitext, k.stable_date_keys)),
          beta   |-> WikiRelease(k.page,
                        _extract_wikitext_field(wikitext, k.beta_version_keys),
                        _extract_wikitext_field(wikitext, k.beta_code_keys),
                        _extract_wikitext_field(wikitext, k.beta_date_keys))]

---------------------------------------------------------------------------
(* _parse_opera_listing *)

(* A listing page is the sequence of its <a> elements in document order.     *)
(* Each is a record: href (the link target), text (the text that follows the *)
(* link inside its parent element) and sameParent (whether its parent is the *)
(* parent of the link before it).  A date is one atomic token.               *)

DateWords == {"2023-08-01", "2023-09-10"}

\* greedy \d+ : the first position at or after i that holds no digit
RECURSIVE DigitRunEnd(_, _)
DigitRunEnd(s, i) == IF IsDigit(At(s, i)) THEN DigitRunEnd(s, i + 1) ELSE i

\* the position after "." and a run of digits starting at i, or 0
DotDigits(s, i) ==
    IF At(s, i) = "." /\ DigitRunEnd(s, i + 1) > i + 1 THEN DigitRunEnd(s, i + 1) ELSE 0

\* the match with the pattern (\d+\.\d+(?:\.\d+){0,2})/? instead
VersionMatchFromTwo(href) ==
    LET e1 == DigitRunEnd(href, 1)
        e2 == IF e1 > 1 THEN DotDigits(href, e1) ELSE 0
        e3 == IF e2 > 0 THEN DotDigits(href, e2) ELSE 0
        e4 == IF e3 > 0 THEN DotDigits(href, e3) ELSE 0
    IN  IF e2 = 0 THEN << >>
        ELSE IF e4 > 0 THEN SubSeq(href, 1, e4 - 1)
        ELSE IF e3 > 0 THEN SubSeq(href, 1, e3 - 1)
        ELSE SubSeq(href, 1, e2 - 1)

\* re.match(r"(\d+\.\d+(?:\.\d+){1,2})/?", href): group(1), or << >> when no match
VersionMatch(href) ==
    LET e1 == DigitRunEnd(href, 1)
        e2 == IF e1 > 1 THEN DotDigits(href, e1) ELSE 0
        e3 == IF e2 > 0 THEN DotDigits(href, e2) ELSE 0
        e4 == IF e3 > 0 THEN DotDigits(href, e3) ELSE 0
    IN  IF e3 = 0 THEN << >>
        ELSE IF e4 > 0 THEN SubSeq(href, 1, e4 - 1) ELSE SubSeq(href, 1, e3 - 1)

\* the first and the last link of the parent element of link i
RECURSIVE ParentFirst(_, _)
ParentFirst(page, i) ==
    IF i > 1 /\ page[i].sameParent THEN ParentFirst(page, i - 1) ELSE i

RECURSIVE ParentLast(_, _)
ParentLast(page, i) ==
    IF i < Len(page) /\ page[i + 1].sameParent THEN ParentLast(page, i + 1) ELSE i

\* the text of links a .. b of the page: each link's label (its target) and the
\* text after it
RECURSIVE TextOf(_, _, _)
TextOf(page, a, b) ==
    IF a > b THEN << >> ELSE page[a].href \o page[a].text \o TextOf(page, a + 1, b)

\* link.parent.get_text(" ", strip=True)
RowText(page, i) == TextOf(page, ParentFirst(page, i), ParentLast(page, i))

\* re.search(r"(\d{4}-\d{2}-\d{2})", row_text): group(1), or None
RECURSIVE DateSearch(_)
DateSearch(row_text) ==
    IF row_text = << >> THEN None
    ELSE IF Head(row_text) \in DateWords THEN <<Head(row_text)>>
    ELSE DateSearch(Tail(row_text))

\* the loop over soup.find_all("a"): the (version, date) pairs appended
RECURSIVE CollectVersions(_, _)
CollectVersions(page, i) ==
    IF i > Len(page) THEN << >>
    ELSE (IF VersionMatch(page[i].href) # << >>
          THEN << <<VersionMatch(page[i].href), DateSearch(RowText(page, i))>> >>
          ELSE << >>) \o CollectVersions(page, i + 1)

\* item[0].split(".")
RECURSIVE Split(_)
Split(v) ==
    LET d == Find(v, ".", 1) IN
    IF d = 0 THEN <<v>> ELSE <<SubSeq(v, 1, d - 1)>> \o Split(SubSeq(v, d + 1, Len(v)))

\* [int(part) for part in item[0].split(".")]
SortKey(item) == LET ps == Split(item[1]) IN [i \in 1 .. Len(ps) |-> int(ps[i])]

\* a < b for Python lists of integers
RECURSIVE ListLess(_, _)
ListLess(a, b) ==
    IF b = << >> THEN FALSE
    ELSE IF a = << >> THEN TRUE
    ELSE IF Head(a) # Head(b) THEN Head(a) < Head(b)
    ELSE ListLess(Tail(a), Tail(b))

\* the key order of the sort
KeyLess(x, y) == ListLess(SortKey(x), SortKey(y))

\* one step of a stable descending sort: x goes after every item that is not
\* less than it
RECURSIVE InsertDesc(_, _)
InsertDesc(sorted, x) ==
    IF sorted = << >> THEN <<x>>
    ELSE IF KeyLess(Head(sorted), x) THEN <<x>> \o sorted
    ELSE <<Head(sorted)>> \o InsertDesc(Tail(sorted), x)

\* versions.sort(key=..., reverse=True)
RECURSIVE SortDesc(_, _)
SortDesc(versions, sorted) ==
    IF versions = << >> THEN sorted
    ELSE SortDesc(Tail(versions), InsertDesc(sorted, Head(versions)))

\* the body of _parse_opera_listing after the request
_parse_opera_listing(page) ==
    LET versions == CollectVersions(page, 1) IN
    IF versions = << >> THEN <<None, None>> ELSE SortDesc(versions, << >>)[1]

OperaStableUrl == <<"https://get.geo.opera.com/pub/opera/desktop/">>
OperaBetaUrl == <<"https://get.geo.opera.com/pub/opera-beta/">>

fetch_opera(stable, beta) ==
    [stable |-> ReleaseInfo(stable[1], stable[1], stable[2], OperaStableUrl),
     beta   |-> ReleaseInfo(beta[1], beta[1], beta[2], OperaBetaUrl)]

---------------------------------------------------------------------------
(* fetch_chrome, fetch_firefox, fetch_edge *)

ChromeUrl == <<"https://chromiumdash.appspot.com/fetch_milestones">>

\* entry = data[0] raises an IndexError on an empty list
chrome_raises(data) == Len(data) = 0

\* _fetch(channel) of fetch_chrome, on the response data
chrome_fetch(channel, data) ==
    LET entry == data[1]
        date_key == IF channel = "Stable" THEN "stable_date" ELSE "beta_date"
    IN  ReleaseInfo(Get(entry, "version"), str(Get(entry, "milestone")),
                    Get(entry, date_key), ChromeUrl)

fetch_chrome(stable, beta) == [stable |-> stable, beta |-> beta]

FirefoxUrl == <<"https://product-details.mozilla.org/1.0/firefox_versions.json">>

fetch_firefox(versions, history_stable, history_dev) ==
    LET stable_version == Get(versions, "LATEST_FIREFOX_VERSION")
        beta_version == Get(versions, "LATEST_FIREFOX_RELEASED_DEVEL_VERSION")
    IN  [stable |-> ReleaseInfo(stable_version, stable_version,
                                Get(history_stable, stable_version), FirefoxUrl),
         beta   |-> ReleaseInfo(beta_version, beta_version,
                                Get(history_dev, beta_version), FirefoxUrl)]

EdgeUrl == <<"https://edgeupdates.microsoft.com/api/products?view=enterprise">>

\* a < b for strings of digits (str.__lt__)
StrLess(a, b) ==
    ListLess([i \in 1 .. Len(a) |-> DigitVal(a[i])], [i \in 1 .. Len(b) |-> DigitVal(b[i])])

\* next((product for product in data if product.get("Product") == name), None):
\* the position of the product in data, or 0 for None
FirstProduct(data, name) ==
    LET ps == {i \in 1 .. Len(data) : Get(data[i], "Product") = name}
    IN  IF ps = {} THEN 0 ELSE Min(ps)

\* max(releases, key=lambda item: item.get("PublishedTime", "")): the first
\* release no other one's key exceeds
MaxRelease(releases) ==
    LET key(i) == GetOr(releases[i], "PublishedTime", << >>)
        best == {i \in 1 .. Len(releases) :
                   \A j \in 1 .. Len(releases) : ~StrLess(key(i), key(j))}
    IN  releases[Min(best)]

\* channel_data.get("Releases", [])
ReleasesOf(data, channel_name) ==
    GetOr(data[FirstProduct(data, <<"Microsoft Edge ", channel_name>>)], "Releases", << >>)

\* max() raises a ValueError on an empty list
edge_channel_raises(data, channel_name) ==
    /\ FirstProduct(data, <<"Microsoft Edge ", channel_name>>) # 0
    /\ Len(ReleasesOf(data, channel_name)) = 0

\* one pass of the loop of fetch_edge
edge_channel(data, channel_name) ==
    IF FirstProduct(data, <<"Microsoft Edge ", channel_name>>) = 0
    THEN ReleaseInfo(None, None, None, EdgeUrl)
    ELSE LET release == MaxRelease(ReleasesOf(data, channel_name)) IN
         ReleaseInfo(Get(release, "ProductVersion"), str(Get(release, "ReleaseId")),
                     Get(release, "PublishedTime"), EdgeUrl)

edge_raises(data) == edge_channel_raises(data, "Stable") \/ edge_channel_raises(data, "Beta")

\* fetch_edge returning only the channels whose product the response holds
fetch_edge_found_only(data) ==
    [ch \in {c \in {"stable", "beta"} :
                FirstProduct(data, <<"Microsoft Edge ",
                                     IF c = "stable" THEN "Stable" ELSE "Beta">>) # 0}
        |-> edge_channel(data, IF ch = "stable" THEN "Stable" ELSE "Beta")]

fetch_edge(data) ==
    [stable |-> edge_channel(data, "Stable"), beta |-> edge_channel(data, "Beta")]

---------------------------------------------------------------------------
(* the per-source fetchers over Wikipedia *)

StableVersionKeys == <<"latest_release_version", "latest_release">>
StableDateKeys == <<"latest_release_date", "latest_release_date">>
BetaVersionKeys == <<"latest_preview_version", "latest_beta_version">>
BetaDateKeys == <<"latest_preview_date", "latest_beta_release_date">>

WikiCall(page) ==
    [page |-> page,
     stable_version_keys |-> StableVersionKeys, stable_date_keys |-> StableDateKeys,
     beta_version_keys |-> BetaVersionKeys, beta_date_keys |-> BetaDateKeys,
     stable_code_keys |-> << >>, beta_code_keys |-> << >>]

fetch_safari(data) ==
    _from_wikipedia(
        [WikiCall("Safari_(web_browser)") EXCEPT
            !.beta_version_keys = BetaVersionKeys \o <<"latest_release_version">>,
            !.beta_date_keys = BetaDateKeys \o <<"latest_release_date">>],
        data)
fetch_whale(data) == _from_wikipedia(WikiCall("Whale_(web_browser)"), data)
fetch_windows(data) == _from_wikipedia(WikiCall("Windows_11"), data)
fetch_macos(data) == _from_wikipedia(WikiCall("macOS"), data)
fetch_android(data) == _from_wikipedia(WikiCall("Android_(operating_system)"), data)
fetch_ios(data) == _from_wikipedia(WikiCall("iOS"), data)
fetch_ipados(data) == _from_wikipedia(WikiCall("iPadOS"), data)

---------------------------------------------------------------------------
(* collect_all and main *)

NoFetcher == ""

OsKeys == {"windows", "macos", "android", "ios", "ipados"}
BrowserKeys == {"chrome", "firefox", "opera", "edge", "safari", "whale"}

\* the entries in another order: firefox before chrome
OrderFirefoxFirst ==
    <<"windows", "macos", "android", "ios", "ipados",
      "firefox", "chrome", "opera", "edge", "safari", "whale">>

\* the order in which the dict literal of collect_all evaluates its entries
Order == <<"windows", "macos", "android", "ios", "ipados",
           "chrome", "firefox", "opera", "edge", "safari", "whale">>

WikiFetchers == {"windows", "macos", "android", "ios", "ipados", "safari", "whale"}

\* the HTTP requests one call of the fetcher makes
NumRequests(f) ==
    CASE f = "chrome" -> 2
      [] f = "firefox" -> 3
      [] f = "opera" -> 2
      [] OTHER -> 1

\* whether the fetcher raises on the response to its request n
Raises(f, n, resp) ==
    CASE f \in WikiFetchers -> wikipedia_raises(resp)
      [] f = "chrome" -> chrome_raises(resp)
      [] f = "edge" -> edge_raises(resp)
      [] OTHER -> FALSE

\* what the fetcher keeps of the response to its request n
Handle(f, n, resp) ==
    CASE f = "chrome" -> chrome_fetch(IF n = 1 THEN "Stable" ELSE "Beta", resp)
      [] f = "opera" -> _parse_opera_listing(resp)
      [] OTHER -> resp

\* the value the fetcher returns
Return(f, ps) ==
    CASE f = "windows" -> fetch_windows(ps[1])
      [] f = "macos" -> fetch_macos(ps[1])
      [] f = "android" -> fetch_android(ps[1])
      [] f = "ios" -> fetch_ios(ps[1])
      [] f = "ipados" -> fetch_ipados(ps[1])
      [] f = "chrome" -> fetch_chrome(ps[1], ps[2])
      [] f = "firefox" -> fetch_firefox(ps[1], ps[2], ps[3])
      [] f = "opera" -> fetch_opera(ps[1], ps[2])
      [] f = "edge" -> fetch_edge(ps[1])
      [] f = "safari" -> fetch_safari(ps[1])
      [] f = "whale" -> fetch_whale(ps[1])

\* the fetcher the evaluation of the dict literal calls next
NextFetcher(done) == Order[done + 1]

\* the exception caught per source: the run goes on with the next fetcher
ExceptionSkipsSource == "fetch"

\* where an exception raised inside collect_all ends: nothing catches it
ExceptionTarget == "failed"

\* the dict collect_all returns
collect_all(timestamp, entries) ==
    [generated_at |-> timestamp \o <<"Z">>,
     operating_systems |-> [k \in OsKeys |-> entries[k]],
     browsers |-> [k \in BrowserKeys |-> entries[k]]]

\* json.dumps(_serialize(data)): asdict() of a ReleaseInfo is the record itself
_serialize(data) == [json |-> data]

---------------------------------------------------------------------------
(* the responses of the sources *)

\* one infobox line, "|key = value\n"
Line(key, value) == <<"|", key, " ", "=", " ">> \o value \o <<"\n">>

\* {{Start date|y|m|d}}
StartDate(y, m, d) ==
    <<"{{Start date", "|">> \o y \o <<"|">> \o m \o <<"|">> \o d \o <<"}}">>

FullInfobox ==
    <<"{{Infobox", "\n">>
    \o Line("name", <<"x">>)
    \o Line("latest_release_version", <<"17.0", "<ref>", "cite", "</ref>">>)
    \o Line("latest_release_date", StartDate(<<"2", "0", "2", "3">>, <<"9">>, <<"5">>))
    \o Line("latest_preview_version", <<"17.1", " ", "beta">>)
    \o Line("latest_preview_date", <<"2023-09-10">>)

SparseInfobox ==
    Line("latest_release_version", <<"{{n/a", "}}">>) \o Line("name", <<"x">>)

WikiResponses ==
    {[parse |-> FullInfobox], [parse |-> SparseInfobox], [error |-> <<"missingtitle">>]}

ChromeEntry ==
    [version |-> <<"120.0.6099.71">>, milestone |-> <<"120">>,
     stable_date |-> <<"2023-12-05">>, beta_date |-> <<"2023-11-08">>]

ChromeResponses == {<<ChromeEntry>>, <<[version |-> <<"120.0.6099.71">>]>>, << >>}

FirefoxVersions ==
    {[LATEST_FIREFOX_VERSION |-> <<"120.0">>,
      LATEST_FIREFOX_RELEASED_DEVEL_VERSION |-> <<"121.0b5">>],
     [LATEST_FIREFOX_VERSION |-> <<"120.0">>]}

FirefoxHistory == {(<<"120.0">> :> <<"2023-11-21">>) @@ (<<"121.0b5">> :> <<"2023-12-01">>)}

Link(href, text, sameParent) == [href |-> href, text |-> text, sameParent |-> sameParent]

OperaListings ==
    {<< Link(<<".", ".", "/">>, << >>, FALSE),
        Link(<<"9", "0", ".", "0", ".", "1", "/">>, <<"2023-08-01">>, FALSE),
        Link(<<"9", "1", ".", "0", ".", "2", "/">>, <<"2023-09-10">>, FALSE) >>,
     << >>}

EdgeRelease(version, id, time) ==
    [ProductVersion |-> version, ReleaseId |-> id, PublishedTime |-> time]

EdgeProduct(channel, releases) ==
    [Product |-> <<"Microsoft Edge ", channel>>, Releases |-> releases]

EdgeResponses ==
    {<< EdgeProduct("Stable", <<EdgeRelease(<<"120.0.1">>, <<"7">>, <<"1">>),
                                EdgeRelease(<<"120.0.2">>, <<"8">>, <<"2">>)>>),
        EdgeProduct("Beta", <<EdgeRelease(<<"121.0.1">>, <<"9">>, <<"2">>)>>) >>,
     << EdgeProduct("Stable", <<[ProductVersion |-> <<"120.0.1">>]>>) >>,
     << EdgeProduct("Stable", << >>) >>}

\* the bodies a successful request n of the fetcher may get
Responses(f, n) ==
    CASE f \in WikiFetchers -> WikiResponses
      [] f = "chrome" -> ChromeResponses
      [] f = "firefox" -> IF n = 1 THEN FirefoxVersions ELSE FirefoxHistory
      [] f = "opera" -> OperaListings
      [] f = "edge" -> EdgeResponses

\* argparse: --output
OutputArgs == {"-", "out.json"}

\* datetime.utcnow().isoformat()
Now == <<"2026-01-01T00:00:00">>

---------------------------------------------------------------------------
(* the run of main *)

FnIdle == fn = "" /\ status = "idle" /\ args = << >> /\ ret = None

\* the state of a run of main at pc0
RunInit(pc0) ==
    /\ pc = pc0
    /\ argOutput = ""
    /\ clockReads = 0
    /\ generated_at = None
    /\ calls = << >>
    /\ active = NoFetcher
    /\ reqNo = 0
    /\ parts = << >>
    /\ snapshot = << >>
    /\ payload = << >>
    /\ stdout = << >>
    /\ outfile = << >>
    /\ raised = NoFetcher

Init == RunInit("start") /\ FnIdle

\* args = parser.parse_args()
parse_args ==
    /\ pc = "start"
    /\ \E o \in OutputArgs : argOutput' = o
    /\ pc' = "collect"
    /\ UNCHANGED <<clockReads, generated_at, calls, active, reqNo, parts, snapshot,
                   payload, stdout, outfile, raised, fn, status, args, ret>>

\* "generated_at": datetime.utcnow().isoformat() + "Z" is the first entry evaluated
read_clock ==
    /\ pc = "collect"
    /\ clockReads' = clockReads + 1
    /\ generated_at' = Now
    /\ pc' = "fetch"
    /\ UNCHANGED <<argOutput, calls, active, reqNo, parts, snapshot, payload, stdout,
                   outfile, raised, fn, status, args, ret>>

\* the next entry of the dict literal calls its fetcher
call_fetcher ==
    /\ pc = "fetch"
    /\ Len(calls) < Len(Order)
    /\ active' = NextFetcher(Len(calls))
    /\ calls' = Append(calls, NextFetcher(Len(calls)))
    /\ reqNo' = 1
    /\ parts' = << >>
    /\ pc' = "request"
    /\ UNCHANGED <<argOutput, clockReads, generated_at, snapshot, payload, stdout,
                   outfile, raised, fn, status, args, ret>>

\* the exception leaves the fetcher, collect_all and main
Propagate ==
    /\ raised' = active
    /\ active' = NoFetcher
    /\ reqNo' = 0
    /\ parts' = << >>
    /\ pc' = ExceptionTarget
    /\ UNCHANGED <<argOutput, clockReads, generated_at, calls, snapshot, payload,
                   stdout, outfile, fn, status, args, ret>>

\* requests.get fails, or response.raise_for_status() raises
request_fails ==
    /\ pc = "request"
    /\ Propagate

\* the request succeeds and the fetcher raises on what it got
response_raises ==
    /\ pc = "request"
    /\ \E resp \in Responses(active, reqNo) : Raises(active, reqNo, resp)
    /\ Propagate

\* the request succeeds and the fetcher goes on to its next request
response_ok ==
    /\ pc = "request"
    /\ reqNo < NumRequests(active)
    /\ \E resp \in Responses(active, reqNo) :
          /\ ~Raises(active, reqNo, resp)
          /\ parts' = Append(parts, Handle(active, reqNo, resp))
    /\ reqNo' = reqNo + 1
    /\ UNCHANGED <<pc, argOutput, clockReads, generated_at, calls, active, snapshot,
                   payload, stdout, outfile, raised, fn, status, args, ret>>

\* the last request succeeds and the fetcher returns its {stable, beta}
fetcher_returns ==
    /\ pc = "request"
    /\ reqNo = NumRequests(active)
    /\ \E resp \in Responses(active, reqNo) :
          /\ ~Raises(active, reqNo, resp)
          /\ snapshot' = snapshot @@
                (active :> Return(active, Append(parts, Handle(active, reqNo, resp))))
    /\ active' = NoFetcher
    /\ reqNo' = 0
    /\ parts' = << >>
    /\ pc' = IF Len(calls) = Len(Order) THEN "return" ELSE "fetch"
    /\ UNCHANGED <<argOutput, clockReads, generated_at, calls, payload, stdout,
                   outfile, raised, fn, status, args, ret>>

\* collect_all returns the dict to main
collect_all_returns ==
    /\ pc = "return"
    /\ payload' = collect_all(generated_at, snapshot)
    /\ pc' = "emit"
    /\ UNCHANGED <<argOutput, clockReads, generated_at, calls, active, reqNo, parts,
                   snapshot, stdout, outfile, raised, fn, status, args, ret>>

\* print(output)
print_output ==
    /\ pc = "emit"
    /\ argOutput = "-"
    /\ stdout' = Append(stdout, _serialize(payload))
    /\ pc' = "done"
    /\ UNCHANGED <<argOutput, clockReads, generated_at, calls, active, reqNo, parts,
                   snapshot, payload, outfile, raised, fn, status, args, ret>>

\* with open(args.output, "w") as handle: handle.write(output)
write_file ==
    /\ pc = "emit"
    /\ argOutput # "-"
    /\ outfile' = <<_serialize(payload)>>
    /\ pc' = "done"
    /\ UNCHANGED <<argOutput, clockReads, generated_at, calls, active, reqNo, parts,
                   snapshot, payload, stdout, raised, fn, status, args, ret>>

Next ==
    \/ parse_args
    \/ read_clock
    \/ call_fetcher
    \/ request_fails
    \/ response_raises
    \/ response_ok
    \/ fetcher_returns
    \/ collect_all_returns
    \/ print_output
    \/ write_file

Spec == Init /\ [][Next]_vars

---------------------------------------------------------------------------
(* the functions called on their own: the arguments are drawn by the initial *)
(* state, the one step is the call                                           *)

\* main is not running
NoRun == RunInit("off")

Called(name) == fn = name /\ status = "called" /\ ret = None

Returns(name, value) ==
    /\ fn = name
    /\ status = "called"
    /\ status' = "returned"
    /\ ret' = value
    /\ UNCHANGED <<fn, args>>
    /\ UNCHANGED runVars

Throws(name) ==
    /\ fn = name
    /\ status = "called"
    /\ status' = "raised"
    /\ UNCHANGED <<fn, args, ret>>
    /\ UNCHANGED runVars

\* all sequences over S of length at most n
SeqsUpTo(S, n) == UNION {[1 .. k -> S] : k \in 0 .. n}

(* _extract_wikitext_field on every short text over the significant tokens *)

MaxText == 5
ExtractAlphabet == {"|", "=", " ", "\n", "a", "b"}
ExtractKeyLists == {<<"a">>, <<"a", "b">>, <<"b", "a">>}

\* the lines of an infobox, and texts of up to MaxLines of them
MaxLines == 2
ExtractLines ==
    {<<"|", "a", "=", "x">>, <<"|", "a", "=", "y">>, <<"|", "b", "=", "z">>,
     <<"|", " ", "a", " ", "=", " ", "x", " ", "y", " ">>, <<"|", "a", "=">>,
     <<"|", "b", " ", "=", " ">>, <<"x">>, << >>}

RECURSIVE JoinLines(_)
JoinLines(ls) ==
    IF ls = << >> THEN << >>
    ELSE IF Len(ls) = 1 THEN ls[1]
    ELSE ls[1] \o <<"\n">> \o JoinLines(Tail(ls))

InitExtract ==
    /\ NoRun
    /\ Called("_extract_wikitext_field")
    /\ \E t \in SeqsUpTo(ExtractAlphabet, MaxText)
              \cup {JoinLines(ls) : ls \in SeqsUpTo(ExtractLines, MaxLines)} :
          \E ks \in ExtractKeyLists : args = [wikitext |-> t, keys |-> ks]

extract_returns ==
    Returns("_extract_wikitext_field", _extract_wikitext_field(args.wikitext, args.keys))

SpecExtract == InitExtract /\ [][extract_returns]_vars

(* _parse_wiki_date on values around a start-date template *)

MaxDigits == 3
DateDigits == {"0", "9"}
DateYears == {<<"2", "0", "2">>, <<"2", "0", "2", "3">>, <<"2", "0", "2", "3", "1">>}
DateOpeners == {"{{Start date", "{{start date", "{{Start date and age"}
DatePrefixes == {<< >>, <<"x", " ">>}
DateTails == {<<"}}">>, <<"|", "df=y", "}}">>}
PlainDates == {<< >>, <<" ">>, <<"2023-09-05">>, <<"<ref>", "c", "</ref>">>,
               <<"{{n/a", "}}">>, <<"2023", "<ref/>">>}

\* the raw value the arguments stand for
DateValue(a) ==
    IF a.open = "" THEN a.prefix
    ELSE a.prefix \o <<a.open, "|">> \o a.year \o <<"|">> \o a.month \o <<"|">> \o a.day
         \o a.tail

InitDate ==
    /\ NoRun
    /\ Called("_parse_wiki_date")
    /\ \/ args \in [open : DateOpeners, prefix : DatePrefixes, year : DateYears,
                    month : SeqsUpTo(DateDigits, MaxDigits),
                    day : SeqsUpTo(DateDigits, MaxDigits), tail : DateTails]
       \/ args \in [open : {""}, prefix : PlainDates, year : {<< >>}, month : {<< >>},
                    day : {<< >>}, tail : {<< >>}]

parse_wiki_date_returns ==
    Returns("_parse_wiki_date", parse_wiki_date_run(DateValue(args)))

SpecDate == InitDate /\ [][parse_wiki_date_returns]_vars

(* _parse_opera_listing on short listings.  A link target is given by its   *)
(* parts: lead (what stands before the version) and comps (the dot-separated *)
(* components after it).                                                     *)

MaxLinks == 2

\* the components of the targets: runs of digits
V0 == <<"0">>
V1 == <<"1">>
V9 == <<"9">>
V09 == <<"0", "9">>
V10 == <<"1", "0">>

OperaTargets ==
    {[lead |-> << >>, comps |-> <<V9, V0>>],
     [lead |-> << >>, comps |-> <<V9, V0, V1>>],
     [lead |-> << >>, comps |-> <<V09, V0, V1>>],
     [lead |-> << >>, comps |-> <<V10, V0, V1>>],
     [lead |-> << >>, comps |-> <<V9, V0, V1, V0>>],
     [lead |-> << >>, comps |-> <<V9, V0, V1, V0, V9>>],
     [lead |-> <<"v">>, comps |-> <<V10, V0, V1>>],
     [lead |-> <<".", ".">>, comps |-> << >>]}

OperaTexts == {<< >>, <<"08-Aug-2023">>, <<"2023-08-01">>, <<"2023-09-10">>}

\* comps joined by "."
RECURSIVE Dotted(_)
Dotted(comps) ==
    IF comps = << >> THEN << >>
    ELSE IF Len(comps) = 1 THEN comps[1]
    ELSE comps[1] \o <<".">> \o Dotted(Tail(comps))

\* the href of a target, a directory
Href(target) == target.lead \o Dotted(target.comps) \o <<"/">>

\* the page the arguments stand for
OperaPage(links) ==
    [i \in 1 .. Len(links) |->
        Link(Href(links[i].target), links[i].text, i > 1 /\ links[i].sameParent)]

InitOpera ==
    /\ NoRun
    /\ Called("_parse_opera_listing")
    /\ args \in SeqsUpTo([target : OperaTargets, text : OperaTexts, sameParent : BOOLEAN],
                         MaxLinks)

parse_opera_listing_returns ==
    Returns("_parse_opera_listing", _parse_opera_listing(OperaPage(args)))

SpecOpera == InitOpera /\ [][parse_opera_listing_returns]_vars

(* _from_wikipedia, as fetch_windows and fetch_safari call it, on short infoboxes *)

MaxFields == 2
WikiKeys == {"latest_release_version", "latest_release", "latest_release_date",
             "latest_preview_version", "name"}
WikiValues ==
    {<< >>, <<"17.0">>, <<"17.0", "<ref/>">>, <<"17.0", "<ref>", "cite", "</ref>">>,
     <<"{{n/a", "}}">>, <<"<ref>", "cite", "</ref>">>}

\* the wikitext of the fields
RECURSIVE Infobox(_)
Infobox(fields) ==
    IF fields = << >> THEN << >>
    ELSE Line(fields[1].key, fields[1].value) \o Infobox(Tail(fields))

InitWiki ==
    /\ NoRun
    /\ \/ Called("fetch_windows")
       \/ Called("fetch_safari")
    /\ args \in SeqsUpTo([key : WikiKeys, value : WikiValues], MaxFields)

fetch_windows_returns ==
    Returns("fetch_windows", fetch_windows([parse |-> Infobox(args)]))

fetch_safari_returns ==
    Returns("fetch_safari", fetch_safari([parse |-> Infobox(args)]))

SpecWiki == InitWiki /\ [][fetch_windows_returns \/ fetch_safari_returns]_vars

(* fetch_chrome, fetch_firefox, fetch_edge and fetch_windows on responses    *)
(* that lack data                                                            *)

\* the JSON objects that hold some of the keys of d
Partial(d) == {[k \in K |-> d[k]] : K \in SUBSET DOMAIN d}

ChromeData == {<<e>> : e \in Partial(ChromeEntry)} \cup {<< >>}

FirefoxFull ==
    [LATEST_FIREFOX_VERSION |-> <<"120.0">>,
     LATEST_FIREFOX_RELEASED_DEVEL_VERSION |-> <<"121.0b5">>]
FirefoxHistories == FirefoxHistory \cup {<< >>}

EdgeFull == EdgeRelease(<<"120.0.2">>, <<"8">>, <<"2">>)
EdgeOlder == EdgeRelease(<<"120.0.1">>, <<"7">>, <<"1">>)
EdgeReleaseLists ==
    {<< >>, <<EdgeOlder, EdgeFull>>, <<EdgeFull, EdgeOlder>>,
     <<EdgeFull, [ProductVersion |-> <<"120.0.3">>]>>}
      \cup {<<r>> : r \in Partial(EdgeFull)}

\* the products of one channel in the response: none, one without releases, or one
\* with a list of them
EdgeProducts(channel, lists) ==
    {<< >>, << [Product |-> <<"Microsoft Edge ", channel>>] >>}
      \cup {<<EdgeProduct(channel, rs)>> : rs \in lists}

EdgeData ==
    {<< [Product |-> <<"Microsoft Edge ", "Dev">>] >> \o s \o b :
        s \in EdgeProducts("Stable", EdgeReleaseLists),
        b \in EdgeProducts("Beta", {<< >>, <<EdgeFull>>})}

InitFetch ==
    /\ NoRun
    /\ \/ Called("fetch_chrome") /\ args \in [stable : ChromeData, beta : ChromeData]
       \/ Called("fetch_firefox")
          /\ args \in [versions : Partial(FirefoxFull), history_stable : FirefoxHistories,
                       history_dev : FirefoxHistories]
       \/ Called("fetch_edge") /\ args \in EdgeData
       \/ Called("fetch_windows")
          /\ args \in SeqsUpTo([key : WikiKeys, value : {<<"17.0">>}], 1)

fetch_chrome_returns ==
    /\ fn = "fetch_chrome"
    /\ ~chrome_raises(args.stable)
    /\ ~chrome_raises(args.beta)
    /\ Returns("fetch_chrome", fetch_chrome(chrome_fetch("Stable", args.stable),
                                            chrome_fetch("Beta", args.beta)))

fetch_chrome_raises ==
    /\ fn = "fetch_chrome"
    /\ chrome_raises(args.stable) \/ chrome_raises(args.beta)
    /\ Throws("fetch_chrome")

fetch_firefox_returns ==
    Returns("fetch_firefox",
            fetch_firefox(args.versions, args.history_stable, args.history_dev))

fetch_edge_returns ==
    /\ fn = "fetch_edge"
    /\ ~edge_raises(args)
    /\ Returns("fetch_edge", fetch_edge(args))

fetch_edge_raises ==
    /\ fn = "fetch_edge"
    /\ edge_raises(args)
    /\ Throws("fetch_edge")

NextFetch ==
    \/ fetch_chrome_returns
    \/ fetch_chrome_raises
    \/ fetch_firefox_returns
    \/ fetch_edge_returns
    \/ fetch_edge_raises
    \/ fetch_windows_returns

SpecFetch == InitFetch /\ [][NextFetch]_vars

---------------------------------------------------------------------------
(* The properties *)

Channels == {"stable", "beta"}
ReleaseInfoFields == {"version", "version_code", "release_date", "source"}

\* collect_all has returned to main
Collected == pc \in {"emit", "done"}

\* C1: whenever collect_all returns, the snapshot has exactly the keys generated_at,
\* operating_systems and browsers, operating_systems exactly the five OS keys,
\* browsers exactly the six browser keys, and each of the eleven entries exactly
\* stable and beta, each a ReleaseInfo, whichever fields are null.
C1_SnapshotShape ==
    Collected =>
        /\ DOMAIN payload = {"generated_at", "operating_systems", "browsers"}
        /\ DOMAIN payload.operating_systems = {"windows", "macos", "android", "ios", "ipados"}
        /\ DOMAIN payload.browsers = {"chrome", "firefox", "opera", "edge", "safari", "whale"}
        /\ \A group \in {"operating_systems", "browsers"} :
              \A k \in DOMAIN payload[group] :
                 /\ DOMAIN payload[group][k] = Channels
                 /\ \A ch \in Channels : DOMAIN payload[group][k][ch] = ReleaseInfoFields

\* a finished run whose snapshot holds null fields beside non-null ones
C1_Witness ==
    /\ pc = "done"
    /\ payload.browsers.edge.beta.version = None
    /\ payload.browsers.chrome.stable.version # None
    /\ payload.operating_systems.ipados.beta.release_date = None
    /\ payload.operating_systems.windows.stable.release_date # None

\* C2: once a fetcher has failed, the run is in the failed state, nothing was
\* printed, the output file does not exist, collect_all returned nothing, and the
\* failed fetcher is the last one that was called.
C2_NoOutputOnFailure ==
    raised # NoFetcher =>
        /\ pc = "failed"
        /\ Len(stdout) = 0
        /\ Len(outfile) = 0
        /\ DOMAIN payload = {}
        /\ calls[Len(calls)] = raised
        /\ active = NoFetcher

\* a run that failed in edge after eight fetchers had returned
C2_Witness ==
    /\ raised = "edge"
    /\ pc = "failed"
    /\ Cardinality(DOMAIN snapshot) = 8

DeclaredOrder ==
    <<"windows", "macos", "android", "ios", "ipados",
      "chrome", "firefox", "opera", "edge", "safari", "whale">>

\* C3: the fetchers are called in the declared order, each once, a fetcher only
\* after the ones before it have returned, and the clock is read exactly once,
\* before the first call; a run that collected everything called all eleven.
C3_CallOrder ==
    /\ Len(calls) <= Len(DeclaredOrder)
    /\ calls = SubSeq(DeclaredOrder, 1, Len(calls))
    /\ clockReads = (IF pc \in {"start", "collect"} THEN 0 ELSE 1)
    /\ (calls # << >> => clockReads = 1)
    /\ active # NoFetcher =>
          /\ active = calls[Len(calls)]
          /\ DOMAIN snapshot = {calls[i] : i \in 1 .. Len(calls) - 1}
    /\ (active = NoFetcher /\ raised = NoFetcher) =>
          DOMAIN snapshot = {calls[i] : i \in 1 .. Len(calls)}
    /\ Collected => calls = DeclaredOrder

\* a finished run
C3_Witness == pc = "done" /\ Len(calls) = 11 /\ clockReads = 1 /\ Len(outfile) = 1

(* _parse_opera_listing *)

CompValue(c) ==
    CASE c = V0 -> 0 [] c = V1 -> 1 [] c = V9 -> 9 [] c = V09 -> 9 [] c = V10 -> 10

\* the components the version of a target is made of: the first four at most
Leading(target) ==
    SubSeq(target.comps, 1, IF Len(target.comps) > 4 THEN 4 ELSE Len(target.comps))

TupleOf(target) == [i \in 1 .. Len(Leading(target)) |-> CompValue(Leading(target)[i])]

\* a < b for tuples of integers
TupleLess(a, b) ==
    \E k \in 1 .. Len(b) :
        /\ k - 1 <= Len(a)
        /\ \A i \in 1 .. k - 1 : a[i] = b[i]
        /\ (k > Len(a) \/ a[k] < b[k])

\* the links of the listing whose target begins with a version of at least n
\* components
VersionLinks(n) ==
    {i \in 1 .. Len(args) : args[i].target.lead = << >> /\ Len(args[i].target.comps) >= n}

\* the date of the link's own row
OwnDate(link) ==
    IF link.text # << >> /\ link.text[1] \in DateWords THEN link.text ELSE None

\* C4: with no version-shaped link the result is (absent, absent); otherwise it is
\* the (version, date) of a link whose integer tuple no other link's exceeds, the
\* date being the one of that link's own row.
C4_HighestWithOwnDate ==
    (fn = "_parse_opera_listing" /\ status = "returned") =>
        IF VersionLinks(3) = {} THEN ret = <<None, None>>
        ELSE \E i \in VersionLinks(3) :
                /\ ret = <<Dotted(Leading(args[i].target)), OwnDate(args[i])>>
                /\ \A j \in VersionLinks(3) :
                      ~TupleLess(TupleOf(args[i].target), TupleOf(args[j].target))

\* C10, as claimed: the links accepted are those whose target begins with a version
\* of 2, 3 or 4 components, and the version returned is the highest of them.
C10_TwoToFourComponents ==
    (fn = "_parse_opera_listing" /\ status = "returned") =>
        IF VersionLinks(2) = {} THEN ret = <<None, None>>
        ELSE \E i \in VersionLinks(2) :
                /\ ret[1] = Dotted(Leading(args[i].target))
                /\ \A j \in VersionLinks(2) :
                      ~TupleLess(TupleOf(args[i].target), TupleOf(args[j].target))

\* C10, amended: the links accepted are those whose target begins with a version of
\* 3 or 4 components (of a longer one the first four are taken); a target of 2
\* components is skipped like any other link.
C10_ThreeOrFourComponents ==
    (fn = "_parse_opera_listing" /\ status = "returned") =>
        IF VersionLinks(3) = {} THEN ret = <<None, None>>
        ELSE \E i \in VersionLinks(3) :
                /\ ret[1] = Dotted(Leading(args[i].target))
                /\ \A j \in VersionLinks(3) :
                      ~TupleLess(TupleOf(args[i].target), TupleOf(args[j].target))

\* a listing of a 2-component and a 5-component target: the first is skipped, of the
\* second the first four components are returned
C10_Witness ==
    /\ fn = "_parse_opera_listing" /\ status = "returned"
    /\ Len(args) = 2
    /\ args[1].target.comps = <<V9, V0>> /\ args[1].target.lead = << >>
    /\ args[2].target.comps = <<V9, V0, V1, V0, V9>>
    /\ ret[1] = <<"9", ".", "0", ".", "1", ".", "0">>

(* _extract_wikitext_field *)

\* the lines of a text
RECURSIVE LinesOf(_)
LinesOf(t) ==
    LET n == Find(t, "\n", 1) IN
    IF n = 0 THEN <<t>> ELSE <<SubSeq(t, 1, n - 1)>> \o LinesOf(SubSeq(t, n + 1, Len(t)))

\* what follows "=" on a line "|key = value", trimmed; NoMatch for any other line
ValueOn(line, key) ==
    LET k == SkipSpace(line, 2)
        e == SkipSpace(line, k + 1)
    IN  IF At(line, 1) = "|" /\ At(line, k) = key /\ At(line, e) = "="
        THEN Strip(SubSeq(line, e + 1, Len(line)))
        ELSE NoMatch

\* whether the line is a line of the field; a line with nothing after "=" counts
\* only if emptyCounts
IsFieldLine(line, key, emptyCounts) ==
    ValueOn(line, key) # NoMatch /\ (emptyCounts \/ ValueOn(line, key) # << >>)

\* the value of the first line of the first alias that has one, else None
RECURSIVE FirstAliasValue(_, _, _)
FirstAliasValue(lines, keys, emptyCounts) ==
    IF keys = << >> THEN None
    ELSE LET hits == {i \in 1 .. Len(lines) : IsFieldLine(lines[i], Head(keys), emptyCounts)}
         IN  IF hits # {} THEN ValueOn(lines[Min(hits)], Head(keys))
             ELSE FirstAliasValue(lines, Tail(keys), emptyCounts)

\* C5: the result is the trimmed value of the first line of the first alias, in
\* list order, that has a line "|field = value", and absent when no alias has one
\* (whether or not a line with nothing after "=" is taken to be such a line).
C5_FirstAliasFirstLine ==
    (fn = "_extract_wikitext_field" /\ status = "returned") =>
        \/ ret = FirstAliasValue(LinesOf(args.wikitext), args.keys, FALSE)
        \/ ret = FirstAliasValue(LinesOf(args.wikitext), args.keys, TRUE)

\* C8: a result that is not absent is the trimmed, non-empty remainder of one line
\* "|alias = ..." of the text, for an alias of the list.
C8_RemainderOfOneLine ==
    (fn = "_extract_wikitext_field" /\ status = "returned" /\ ret # None) =>
        \E k \in 1 .. Len(args.keys) :
            \E i \in 1 .. Len(LinesOf(args.wikitext)) :
                /\ IsFieldLine(LinesOf(args.wikitext)[i], args.keys[k], FALSE)
                /\ ret = ValueOn(LinesOf(args.wikitext)[i], args.keys[k])

(* _parse_wiki_date *)

\* the value holds a Start date template with a year of 4 digits and a month and a
\* day of 1 or 2 digits
IsStartDate(a) ==
    /\ a.open = "{{Start date"
    /\ Len(a.year) = 4
    /\ Len(a.month) \in {1, 2}
    /\ Len(a.day) \in {1, 2}

Pad2(ds) == IF Len(ds) = 1 THEN <<"0">> \o ds ELSE ds

\* C6: on a value with a Start date template of a 4-digit year and a 1- or 2-digit
\* month and day, the result is YYYY-MM-DD, zero-padded, and the cleaner is not
\* called; on any other value it is the cleaner's output, or absent when that is
\* empty.
C6_StartDateOrCleaner ==
    (fn = "_parse_wiki_date" /\ status = "returned") =>
        IF IsStartDate(args)
        THEN ret = [ret |-> args.year \o <<"-">> \o Pad2(args.month) \o <<"-">> \o Pad2(args.day),
                    cleaner_calls |-> 0]
        ELSE ret = [ret |-> OrNone(_clean_wikitext(DateValue(args))), cleaner_calls |-> 1]

(* the fetchers *)

\* the field is absent when the key is missing from the JSON object
AbsentIfMissing(object, key, field) == key \notin DOMAIN object => field = None

ChromeAbsent(entry, date_key, info) ==
    /\ AbsentIfMissing(entry, "version", info.version)
    /\ AbsentIfMissing(entry, "milestone", info.version_code)
    /\ AbsentIfMissing(entry, date_key, info.release_date)

\* the latest release of the channel has the fields its JSON object has: a missing
\* product, a missing or empty list of releases, a missing key give absent fields
EdgeAbsent(data, channel_name, info) ==
    IF FirstProduct(data, <<"Microsoft Edge ", channel_name>>) = 0
       \/ Len(ReleasesOf(data, channel_name)) = 0
    THEN info.version = None /\ info.version_code = None /\ info.release_date = None
    ELSE \E i \in 1 .. Len(ReleasesOf(data, channel_name)) :
            LET release == ReleasesOf(data, channel_name)[i] IN
            /\ AbsentIfMissing(release, "ProductVersion", info.version)
            /\ AbsentIfMissing(release, "ReleaseId", info.version_code)
            /\ AbsentIfMissing(release, "PublishedTime", info.release_date)

\* C7: on a successful response that lacks a piece of data no fetcher raises, and
\* the field of the ReleaseInfo the piece belongs to is absent.
C7_MissingDataIsAbsent ==
    /\ (fn = "fetch_edge" \/ (fn = "fetch_chrome" /\ Len(args.stable) > 0 /\ Len(args.beta) > 0))
          => status # "raised"
    /\ (fn = "fetch_chrome" /\ status = "returned") =>
          /\ DOMAIN ret = Channels
          /\ ChromeAbsent(args.stable[1], "stable_date", ret.stable)
          /\ ChromeAbsent(args.beta[1], "beta_date", ret.beta)
    /\ (fn = "fetch_firefox" /\ status = "returned") =>
          /\ DOMAIN ret = Channels
          /\ AbsentIfMissing(args.versions, "LATEST_FIREFOX_VERSION", ret.stable.version)
          /\ AbsentIfMissing(args.versions, "LATEST_FIREFOX_VERSION", ret.stable.version_code)
          /\ AbsentIfMissing(args.versions, "LATEST_FIREFOX_RELEASED_DEVEL_VERSION",
                             ret.beta.version)
          /\ AbsentIfMissing(args.versions, "LATEST_FIREFOX_RELEASED_DEVEL_VERSION",
                             ret.beta.version_code)
          /\ AbsentIfMissing(args.history_stable, ret.stable.version, ret.stable.release_date)
          /\ AbsentIfMissing(args.history_dev, ret.beta.version, ret.beta.release_date)
    /\ (fn = "fetch_edge" /\ status = "returned") =>
          /\ DOMAIN ret = Channels
          /\ EdgeAbsent(args, "Stable", ret.stable)
          /\ EdgeAbsent(args, "Beta", ret.beta)
    /\ (fn = "fetch_windows" /\ status = "returned") =>
          /\ DOMAIN ret = Channels
          /\ \A i \in 1 .. Len(args) :
                /\ args[i].key \notin {"latest_release_version", "latest_release"}
                      => ret.stable.version = None /\ ret.stable.version_code = None
                /\ args[i].key # "latest_release_date" => ret.stable.release_date = None
                /\ args[i].key # "latest_preview_version"
                      => ret.beta.version = None /\ ret.beta.version_code = None
          /\ ret.beta.release_date = None

\* C9: no ReleaseInfo built from Wikipedia has the empty string as its version or
\* its version_code: a value that cleans to nothing gives null.
C9_NoEmptyVersion ==
    (fn \in {"fetch_windows", "fetch_safari"} /\ status = "returned") =>
        \A ch \in Channels : ret[ch].version # << >> /\ ret[ch].version_code # << >>

===========================================================================
